---- MODULE Spec2Model ----
(***************************************************************************)
(* Sorties famille en Suisse (app.py, supabase_repo.py).                   *)
(*                                                                         *)
(* Five state machines over one set of variables:                          *)
(*   SpecHours   the place card's "open now" badge: is_open_now on one     *)
(*               hours_json cell at one instant;                           *)
(*   SpecWindow  the event card's badge: within_open_now on one pair of    *)
(*               timestamp cells at one instant;                           *)
(*   SpecFilter  apply_place_filters / apply_event_filters on a record     *)
(*               collection with the sidebar's parameters;                 *)
(*   SpecEventViews  the event card's badge and the events tab together;   *)
(*   Spec        a session: script runs of main() with a form submitted,   *)
(*               over the CSV files, the image folder and the remote       *)
(*               backend.                                                  *)
(*                                                                         *)
(* Time is counted in seconds from Monday 2024-12-30T00:00:00Z, so that    *)
(* (seconds \div 86400) % 7 is Python's weekday() (Monday = 0).  The zone  *)
(* Europe/Zurich is modelled for the year 2025: UTC+1, and UTC+2 between   *)
(* 2025-03-30T01:00:00Z and 2025-10-26T01:00:00Z.                          *)
(***************************************************************************)
EXTENDS Integers, Sequences, FiniteSets, TLC

VARIABLES
    \* SpecHours
    hours_json,      \* the cell handed to is_open_now
    hours_now,       \* the instant datetime.now(APP_TZ) returns, in UTC seconds
    open_result,     \* "unset", or what is_open_now did: "open", "closed", "raise"
    \* SpecWindow
    start_dt_str,    \* the start_dt cell handed to within_open_now
    end_dt_str,      \* the end_dt cell
    window_now,      \* the instant datetime.now(APP_TZ) returns, in UTC seconds
    within_result,   \* "unset", or what within_open_now did: "within", "not_within", "raise"
    \* SpecFilter
    df_kind,         \* "places" or "events"
    df,              \* the record collection, a sequence of rows
    params,          \* the sidebar's values (q, pluie, duree, parking, satis, open_now)
    filter_now,      \* the instant of the run, in UTC seconds
    filtered,        \* "unset", or [raised, rows]: what the filter function did
    shown,           \* the cards the tab rendered, in their order
    \* Spec (session)
    USE_SUPABASE,    \* Repo() was constructed at startup
    clock,           \* int(datetime.now().timestamp()), counted from the session's start
    places_csv,      \* data/places.csv, a sequence of rows
    events_csv,      \* data/events.csv
    img_dir,         \* data/images: a set of [path, bytes]
    bucket,          \* the remote storage bucket: a set of [path, bytes]
    remote_places,   \* the remote table "places"
    remote_events,   \* the remote table "events"
    msg              \* what the latest run showed: st.error / st.success

hoursVars   == <<hours_json, hours_now, open_result>>
windowVars  == <<start_dt_str, end_dt_str, window_now, within_result>>
filterVars  == <<df_kind, df, params, filter_now, filtered, shown>>
sessionVars == <<USE_SUPABASE, clock, places_csv, events_csv,
                 img_dir, bucket, remote_places, remote_events, msg>>
vars == <<hoursVars, windowVars, filterVars, sessionVars>>

(***************************************************************************)
(* Bounds of the model.                                                    *)
(***************************************************************************)
MaxIntervals == 2    \* intervals per weekday entry of a sampled schedule
MaxK == 4            \* half-hour steps of the timestamp samples around a zone transition
MaxRows == 2         \* rows of a sampled record collection
MaxStored == 2       \* records the session's two CSV files hold together
MaxClock == 1        \* seconds the session's clock advances

(***************************************************************************)
(* Time and the zone APP_TZ = ZoneInfo("Europe/Zurich").                   *)
(***************************************************************************)
DaySeconds == 24 * 3600

\* 2025-03-30T01:00:00Z: 02:00 CET becomes 03:00 CEST (a gap in local time).
DstStartUtc == 90 * DaySeconds + 3600
\* 2025-10-26T01:00:00Z: 03:00 CEST becomes 02:00 CET (an hour of local time repeats).
DstEndUtc == 300 * DaySeconds + 3600

\* utcoffset() of an instant in APP_TZ (what datetime.now(APP_TZ) carries).
ZurichOffset(utc) ==
    IF utc >= DstStartUtc /\ utc < DstEndUtc THEN 7200 ELSE 3600

\* utcoffset() of a wall-clock reading to which APP_TZ is attached with
\* fold = 0 (replace(tzinfo=APP_TZ)): in the gap the offset before the
\* transition, in the repeated hour the first occurrence.
Fold0Offset(wall) ==
    IF wall >= DstStartUtc + 7200 /\ wall < DstEndUtc + 7200 THEN 7200 ELSE 3600

\* A wall-clock reading that no instant, or more than one instant, has.
InGap(wall)  == wall >= DstStartUtc + 3600 /\ wall < DstStartUtc + 7200
InFold(wall) == wall >= DstEndUtc + 3600 /\ wall < DstEndUtc + 7200

\* An aware datetime is its wall-clock fields (as seconds), its tzinfo ("APP_TZ":
\* the one ZoneInfo object; "fixed": a timezone of a fixed offset) and its
\* utcoffset(); the instant it denotes is wall - off.
\* now_local(): datetime.now(APP_TZ) at the instant utc.
now_local(utc) ==
    [wall |-> utc + ZurichOffset(utc), tz |-> "APP_TZ", off |-> ZurichOffset(utc)]

\* dt.weekday() and dt.time() of a datetime's wall-clock fields.
weekday(wall) == (wall \div DaySeconds) % 7
time_of(wall) == wall % DaySeconds

\* time(h, m), as seconds of the day.
time(h, m) == h * 3600 + m * 60

\* The instant at which APP_TZ's wall clock reads day d (days counted from the
\* model's epoch), h:m:s, for a reading that exactly one instant has.
AtLocal(d, h, m, s) ==
    LET wall == d * DaySeconds + time(h, m) + s IN wall - Fold0Offset(wall)

WEEKDAYS_FR == <<"Lun", "Mar", "Mer", "Jeu", "Ven", "Sam", "Dim">>

(***************************************************************************)
(* JSON values, as json.loads returns them.  A string is given by what     *)
(* s.split(":") yields: its parts, each an integer literal or not; the     *)
(* empty string has no parts.                                              *)
(***************************************************************************)
JNull       == [k |-> "null"]
JBool(b)    == [k |-> "bool", b |-> b]
JNum(n)     == [k |-> "num", n |-> n]
JStr(parts) == [k |-> "str", parts |-> parts]
JList(xs)   == [k |-> "list", items |-> xs]
JObj(f)     == [k |-> "obj", f |-> f]

IntPart(n) == [int |-> TRUE, v |-> n]
BadPart    == [int |-> FALSE, v |-> 0]
\* The "HH:MM" string of h and m (time_to_str's strftime("%H:%M")).
HHMM(h, m) == JStr(<<IntPart(h), IntPart(m)>>)

\* Python's truth value of a JSON value.
Truthy(v) ==
    CASE v.k = "null" -> FALSE
      [] v.k = "bool" -> v.b
      [] v.k = "num"  -> v.n # 0
      [] v.k = "str"  -> v.parts # <<>>
      [] v.k = "list" -> v.items # <<>>
      [] v.k = "obj"  -> DOMAIN v.f # {}

\* d.get(key, default) of a dict d.
DictGet(obj, key, default) ==
    IF key \in DOMAIN obj.f THEN obj.f[key] ELSE default

(***************************************************************************)
(* The hours_json cell of a row: None, NaN, a number (a CSV column read as *)
(* numbers), or text, which is empty, not JSON, or the JSON value `json`.  *)
(***************************************************************************)
CellNone      == [k |-> "none", json |-> JNull]
CellNaN       == [k |-> "nan", json |-> JNull]
CellEmpty     == [k |-> "empty", json |-> JNull]
CellNotJson   == [k |-> "notjson", json |-> JNull]
CellNumber    == [k |-> "number", json |-> JNull]
CellText(j)   == [k |-> "text", json |-> j]

(***************************************************************************)
(* Schedule Evaluator: parse_time_str, is_open_today_intervals,            *)
(* is_open_now.  Clock times are seconds of the day.                       *)
(***************************************************************************)
PNone    == [k |-> "none", t |-> 0]
PRaise   == [k |-> "raise", t |-> 0]
PTime(t) == [k |-> "time", t |-> t]

\* parse_time_str(s) for a JSON value s (None is JNull): a time, None, or an
\* exception that leaves the function.  `not s or pd.isna(s)` runs before
\* the try: pd.isna of a list is an array, whose truth value raises when it
\* has more than one element.  Inside the try, split, int() and time() fail
\* into None.
parse_time_str(s) ==
    IF ~Truthy(s) THEN PNone
    ELSE IF s.k = "list" /\ Len(s.items) > 1 THEN PRaise
    ELSE IF s.k # "str" THEN PNone
    ELSE IF Len(s.parts) # 2 THEN PNone
    ELSE IF ~(s.parts[1].int /\ s.parts[2].int) THEN PNone
    ELSE IF ~(s.parts[1].v \in 0..23 /\ s.parts[2].v \in 0..59) THEN PNone
    ELSE PTime(time(s.parts[1].v, s.parts[2].v))

IntervalsRaise  == [raised |-> TRUE, intervals |-> <<>>]
IntervalsOk(xs) == [raised |-> FALSE, intervals |-> xs]

\* The loop over day_cfg's interval blocks: block.get raises on a block that is
\* no dict; a block whose start and end both parse is kept.
RECURSIVE CollectBlocks(_)
CollectBlocks(blocks) ==
    IF blocks = <<>> THEN IntervalsOk(<<>>)
    ELSE LET block == Head(blocks) IN
         IF block.k # "obj" THEN IntervalsRaise
         ELSE LET start == parse_time_str(DictGet(block, "start", JNull))
                  end   == parse_time_str(DictGet(block, "end", JNull))
                  rest  == CollectBlocks(Tail(blocks))
              IN  IF start.k = "raise" \/ end.k = "raise" \/ rest.raised
                  THEN IntervalsRaise
                  ELSE IF start.k = "time" /\ end.k = "time"
                       THEN IntervalsOk(<<<<start.t, end.t>>>> \o rest.intervals)
                       ELSE rest

\* is_open_today_intervals(hours_json, dt), dt given by its wall-clock fields.
\* Only json.loads is inside the try: .get on a value that is no dict and the
\* iteration of a value that cannot be iterated leave the function as
\* exceptions.
is_open_today_intervals(cell, wall) ==
    IF cell.k # "text" THEN IntervalsOk(<<>>)
    ELSE LET data == cell.json IN
         IF data.k # "obj" THEN IntervalsRaise
         ELSE LET day_cfg == DictGet(data, WEEKDAYS_FR[weekday(wall) + 1], JObj(<<>>)) IN
              IF ~Truthy(day_cfg) THEN IntervalsOk(<<>>)
              ELSE IF day_cfg.k # "obj" THEN IntervalsRaise
              ELSE IF ~Truthy(DictGet(day_cfg, "open", JBool(FALSE))) THEN IntervalsOk(<<>>)
              ELSE LET ivs == DictGet(day_cfg, "intervals", JList(<<>>)) IN
                   CASE ivs.k = "list" -> CollectBlocks(ivs.items)
                     [] ivs.k = "obj"  -> IF DOMAIN ivs.f = {} THEN IntervalsOk(<<>>)
                                          ELSE IntervalsRaise
                     [] ivs.k = "str"  -> IF ivs.parts = <<>> THEN IntervalsOk(<<>>)
                                          ELSE IntervalsRaise
                     [] OTHER          -> IntervalsRaise

\* start <= now_t <= end
IntervalContainsStrictEnd(start, end, now_t) == start <= now_t /\ now_t < end
IntervalContains(start, end, now_t) == start <= now_t /\ now_t <= end

\* is_open_now(hours_json) at the instant utc.
is_open_now(cell, utc) ==
    LET dt    == now_local(utc)
        r     == is_open_today_intervals(cell, dt.wall)
        now_t == time_of(dt.wall)
    IN  IF r.raised THEN "raise"
        ELSE IF \E i \in 1..Len(r.intervals) :
                    IntervalContains(r.intervals[i][1], r.intervals[i][2], now_t)
             THEN "open"
             ELSE "closed"

(***************************************************************************)
(* SpecHours: the inputs.                                                  *)
(***************************************************************************)
\* Sequences over S of length at most n.
SeqUpTo(S, n) == UNION {[1..m -> S] : m \in 0..n}

ClockSamples == {<<0, 0>>, <<9, 0>>, <<12, 0>>}

Block(s, e) == JObj("start" :> HHMM(s[1], s[2]) @@ "end" :> HHMM(e[1], e[2]))

\* {"open": o, "intervals": [...]}
DayEntry(o, blocks) == JObj("open" :> JBool(o) @@ "intervals" :> JList(blocks))

ClosedEntry == DayEntry(FALSE, <<>>)

SampleBlocks == {Block(s, e) : s \in ClockSamples, e \in ClockSamples}

SampleEntries ==
    {DayEntry(o, bs) : o \in BOOLEAN, bs \in SeqUpTo(SampleBlocks, MaxIntervals)}

\* A schedule with the entry e for the weekday d and, for the other six days,
\* the closed entry build_hours_input writes, or no entry at all.
Schedule(d, e, others) ==
    IF others
    THEN JObj([x \in {WEEKDAYS_FR[i] : i \in 1..7} |-> IF x = d THEN e ELSE ClosedEntry])
    ELSE JObj(d :> e)

WellFormedCells ==
    {CellText(Schedule(WEEKDAYS_FR[i], e, others)) :
        i \in 1..7, e \in SampleEntries, others \in BOOLEAN}

\* Cells that are missing, or hold no schedule of the documented structure.
MalformedCells ==
    {CellNone, CellNaN, CellEmpty, CellNotJson, CellNumber}
    \cup {CellText(j) : j \in {JList(<<>>), JNum(5), JStr(<<BadPart>>), JNull, JBool(TRUE)}}
    \cup {CellText(JObj("Lun" :> v)) :
            v \in {JNum(5), JNum(0), JStr(<<BadPart>>), JList(<<JNum(1)>>), JList(<<>>),
                   JBool(TRUE), JNull, JObj(<<>>)}}
    \cup {CellText(JObj("Lun" :> JObj("open" :> JBool(TRUE) @@ "intervals" :> v))) :
            v \in {JNum(5), JNull, JStr(<<BadPart>>), JStr(<<>>),
                   JObj("start" :> HHMM(9, 0) @@ "end" :> HHMM(12, 0)),
                   JList(<<JNum(5)>>), JList(<<JStr(<<BadPart>>)>>), JList(<<JNull>>),
                   JList(<<JList(<<>>)>>)}}
    \cup {CellText(JObj("Lun" :> DayEntry(TRUE, <<JObj("start" :> s @@ "end" :> HHMM(12, 0))>>))) :
            s \in {JNum(900), JNull, JStr(<<BadPart>>), JStr(<<IntPart(9)>>),
                   JStr(<<IntPart(24), IntPart(0)>>), JStr(<<IntPart(9), IntPart(60)>>),
                   JStr(<<IntPart(9), IntPart(0), IntPart(0)>>), JBool(TRUE),
                   JList(<<JNum(9)>>), JList(<<JNum(9), JNum(0)>>)}}

HoursCells == WellFormedCells \cup MalformedCells

\* Monday 2025-07-07 (27 weeks after the epoch) and the days around it, in
\* summer time, and Monday 2025-11-03, in winter time.
SummerMonday == 27 * 7
WinterMonday == 44 * 7

HoursNowSamples ==
    {AtLocal(SummerMonday, 11, 30, 0), AtLocal(SummerMonday, 13, 0, 0),
     AtLocal(SummerMonday + 1, 10, 0, 0),
     AtLocal(SummerMonday, 8, 59, 59), AtLocal(SummerMonday, 9, 0, 0),
     AtLocal(SummerMonday, 12, 0, 0), AtLocal(SummerMonday, 12, 0, 1),
     AtLocal(SummerMonday, 0, 0, 0), AtLocal(SummerMonday, 0, 30, 0),
     AtLocal(SummerMonday - 1, 23, 59, 59), AtLocal(SummerMonday + 1, 9, 0, 0),
     AtLocal(WinterMonday, 0, 30, 0), AtLocal(WinterMonday, 12, 0, 0)}

(***************************************************************************)
(* The values the variables of the other state machines keep while one     *)
(* state machine runs.                                                     *)
(***************************************************************************)
NotFiltered == [done |-> FALSE, raised |-> FALSE, rows |-> <<>>]

HoursIdle ==
    /\ hours_json = CellNone
    /\ hours_now = 0
    /\ open_result = "unset"

WindowIdle ==
    /\ start_dt_str = [k |-> "none"]
    /\ end_dt_str = [k |-> "none"]
    /\ window_now = 0
    /\ within_result = "unset"

FilterIdle ==
    /\ df_kind = "places"
    /\ df = <<>>
    /\ params = <<>>
    /\ filter_now = 0
    /\ filtered = NotFiltered
    /\ shown = <<>>

SessionIdle ==
    /\ USE_SUPABASE = FALSE
    /\ clock = 0
    /\ places_csv = <<>>
    /\ events_csv = <<>>
    /\ img_dir = {}
    /\ bucket = {}
    /\ remote_places = <<>>
    /\ remote_events = <<>>
    /\ msg = "none"

(***************************************************************************)
(* SpecHours: place_card evaluates is_open_now(row.get("hours_json")).     *)
(***************************************************************************)
InitHours ==
    /\ hours_json \in HoursCells
    /\ hours_now \in HoursNowSamples
    /\ open_result = "unset"
    /\ WindowIdle /\ FilterIdle /\ SessionIdle

PlaceCardBadge ==
    /\ open_result = "unset"
    /\ open_result' = is_open_now(hours_json, hours_now)
    /\ UNCHANGED <<hours_json, hours_now, windowVars, filterVars, sessionVars>>

NextHours == PlaceCardBadge

SpecHours == InitHours /\ [][NextHours]_vars

\* What a well-formed schedule says at the instant utc: the entry of the local
\* weekday has open = true and one of its intervals holds the local clock time.
ClockOfHHMM(str) == str.parts[1].v * 3600 + str.parts[2].v * 60

ScheduleSaysOpen(cell, utc) ==
    LET wall  == utc + ZurichOffset(utc)
        label == WEEKDAYS_FR[((wall \div DaySeconds) % 7) + 1]
        days  == cell.json.f
    IN  /\ label \in DOMAIN days
        /\ days[label].f["open"].b
        /\ \E i \in 1..Len(days[label].f["intervals"].items) :
              LET b == days[label].f["intervals"].items[i].f IN
              /\ ClockOfHHMM(b["start"]) <= wall % DaySeconds
              /\ wall % DaySeconds <= ClockOfHHMM(b["end"])

\* C1: for a well-formed weekly schedule and an instant taken in Europe/Zurich,
\* is_open_now reports open exactly when the entry of the instant's local
\* weekday has open = true and one of its intervals satisfies
\* start <= clock time <= end as a same-day comparison (both ends inclusive, no
\* wrap past midnight, an empty interval list is closed).
C1_OpenIffInInterval ==
    (open_result # "unset" /\ hours_json \in WellFormedCells)
        => open_result = (IF ScheduleSaysOpen(hours_json, hours_now) THEN "open" ELSE "closed")

\* C1's case: a well-formed schedule evaluated exactly at the end of an interval
\* (Monday 12:00:00 local), reported open.
C1_Witness ==
    /\ open_result = "open"
    /\ hours_json \in WellFormedCells
    /\ hours_now = AtLocal(SummerMonday, 12, 0, 0)

\* C2: for every missing or malformed hours_json, is_open_now returns closed and
\* raises nothing.
C2_MalformedIsClosed ==
    (open_result # "unset" /\ hours_json \in MalformedCells) => open_result = "closed"

(***************************************************************************)
(* Window Evaluator: within_open_now.                                      *)
(*                                                                         *)
(* A timestamp cell is None, NaN, a number, or text, which is empty, no    *)
(* ISO-8601 date-time, or one: its wall-clock fields and its offset, or    *)
(* no offset (naive).                                                      *)
(***************************************************************************)
TsNone    == [k |-> "none"]
TsNaN     == [k |-> "nan"]
TsEmpty   == [k |-> "empty"]
TsNotIso  == [k |-> "notiso"]
TsNumber  == [k |-> "number"]
TsNaive(wall)      == [k |-> "iso", wall |-> wall, naive |-> TRUE, off |-> 0]
TsOffset(wall, o)  == [k |-> "iso", wall |-> wall, naive |-> FALSE, off |-> o]

\* `not cell`: None and the empty string are false; NaN and text are true.
TsFalsy(cell) == cell.k \in {"none", "empty"}

\* datetime.fromisoformat(text), then replace(tzinfo=APP_TZ) when tzinfo is None.
AttachZone(cell) ==
    IF cell.naive
    THEN [wall |-> cell.wall, tz |-> "APP_TZ", off |-> Fold0Offset(cell.wall)]
    ELSE [wall |-> cell.wall, tz |-> "fixed", off |-> cell.off]

\* a <= b of two aware datetimes: with the same tzinfo object the wall-clock
\* fields are compared and the offsets ignored; otherwise the instants.
DtLe(a, b) ==
    IF a.tz = "APP_TZ" /\ b.tz = "APP_TZ"
    THEN a.wall <= b.wall
    ELSE a.wall - a.off <= b.wall - b.off

within_open_nowParseOutsideTry(start_cell, end_cell, utc) ==
    IF TsFalsy(start_cell) \/ TsFalsy(end_cell) THEN "not_within"
    ELSE IF start_cell.k # "iso" \/ end_cell.k # "iso" THEN "raise"
    ELSE LET start == AttachZone(start_cell)
             end   == AttachZone(end_cell)
             now   == now_local(utc)
         IN  IF DtLe(start, now) /\ DtLe(now, end) THEN "within" ELSE "not_within"

\* within_open_now(start_dt_str, end_dt_str) at the instant utc.  Everything
\* after the first test is inside the try: fromisoformat of a value that is no
\* ISO text raises there, and the function returns False.
within_open_now(start_cell, end_cell, utc) ==
    IF TsFalsy(start_cell) \/ TsFalsy(end_cell) THEN "not_within"
    ELSE IF start_cell.k # "iso" \/ end_cell.k # "iso" THEN "not_within"
    ELSE LET start == AttachZone(start_cell)
             end   == AttachZone(end_cell)
             now   == now_local(utc)
         IN  IF DtLe(start, now) /\ DtLe(now, end) THEN "within" ELSE "not_within"

(***************************************************************************)
(* SpecWindow: the inputs.  Wall-clock readings in half-hour steps from    *)
(* 01:30 on the two days of 2025 on which the zone's offset changes, and   *)
(* the readings 09:00 and 18:00 of 2025-07-01.                             *)
(***************************************************************************)
SpringWall0 == 90 * DaySeconds + 5400
FallWall0   == 300 * DaySeconds + 5400
JulyFirst   == 26 * 7 + 1

WallSamples ==
    {SpringWall0 + n * 1800 : n \in 0..MaxK}
    \cup {FallWall0 + n * 1800 : n \in 0..MaxK}
    \cup {JulyFirst * DaySeconds + time(9, 0), JulyFirst * DaySeconds + time(18, 0)}

IsoCells ==
    {TsNaive(w) : w \in WallSamples}
    \cup {TsOffset(w, o) : w \in WallSamples, o \in {3600, 7200}}

UnparsableCells == {TsNone, TsNaN, TsEmpty, TsNotIso, TsNumber}

TimestampCells == IsoCells \cup UnparsableCells

\* Instants from 00:30Z on 2025-03-30 and from 23:30Z on 2025-10-25, on the
\* half hour and one second before it, and 09:00:00 and 08:59:59 (+02:00) of
\* 2025-07-01.
WindowNowSamples ==
    {SpringWall0 - 3600 + n * 1800 - d : n \in 0..MaxK, d \in {0, 1}}
    \cup {FallWall0 - 7200 + n * 1800 - d : n \in 0..(MaxK + 2), d \in {0, 1}}
    \cup {JulyFirst * DaySeconds + time(9, 0) - 7200 - d : d \in {0, 1}}

InitWindow ==
    /\ start_dt_str \in TimestampCells
    /\ end_dt_str \in TimestampCells
    /\ window_now \in WindowNowSamples
    /\ within_result = "unset"
    /\ HoursIdle /\ FilterIdle /\ SessionIdle

EventCardBadge ==
    /\ within_result = "unset"
    /\ within_result' = within_open_now(start_dt_str, end_dt_str, window_now)
    /\ UNCHANGED <<start_dt_str, end_dt_str, window_now, hoursVars, filterVars, sessionVars>>

NextWindow == EventCardBadge

SpecWindow == InitWindow /\ [][NextWindow]_vars

\* The instant a parsable timestamp denotes: with an offset, wall - offset;
\* without one, the wall-clock reading taken as local time of Europe/Zurich
\* (where two instants have the reading, the first).
InstantOf(cell) ==
    IF cell.naive THEN cell.wall - Fold0Offset(cell.wall) ELSE cell.wall - cell.off

\* A parsable timestamp that denotes exactly one instant: it carries an offset,
\* or its wall-clock reading is neither skipped nor repeated by the zone.
Definite(cell) == ~cell.naive \/ (~InGap(cell.wall) /\ ~InFold(cell.wall))

BothParsable == start_dt_str.k = "iso" /\ end_dt_str.k = "iso"

\* C3: for every pair of parsable timestamps and every instant now,
\* within_open_now is true exactly when start <= now <= end as absolute
\* instants, a timestamp without an offset being read as Europe/Zurich local
\* time.
C3_AbsoluteComparison ==
    (within_result # "unset" /\ BothParsable)
        => (within_result = "within"
              <=> (InstantOf(start_dt_str) <= window_now /\ window_now <= InstantOf(end_dt_str)))

\* C3 where it does hold: the same, for timestamps that carry an offset or
\* whose wall-clock reading exactly one instant of Europe/Zurich has; both
\* ends inclusive, and never within when end < start.
C3_AbsoluteComparisonDefinite ==
    (within_result # "unset" /\ BothParsable
        /\ Definite(start_dt_str) /\ Definite(end_dt_str))
        => /\ within_result = "within"
                <=> (InstantOf(start_dt_str) <= window_now
                       /\ window_now <= InstantOf(end_dt_str))
           /\ InstantOf(end_dt_str) < InstantOf(start_dt_str) => within_result = "not_within"

(***************************************************************************)
(* Filter Engine: apply_place_filters, apply_event_filters.                *)
(*                                                                         *)
(* A row's cells, as pandas holds them after read_csv: location is text (a *)
(* sequence of characters) or NaN; rain_ok is "True", "False" or "NaN";    *)
(* duration_min and satisfaction are numbers or NaN; parking is a text or  *)
(* "NaN".  A place has an hours_json cell, an event start_dt and end_dt.   *)
(***************************************************************************)
PARKING_OPTIONS == {"Facile", "Moyen", "Difficile"}

NaN    == [nan |-> TRUE, v |-> 0]
Num(n) == [nan |-> FALSE, v |-> n]
NaNText == [nan |-> TRUE, s |-> <<>>]
Text(s) == [nan |-> FALSE, s |-> s]

\* str.lower() of one character of the model's alphabet.
LowerChar(c) ==
    CASE c = "B" -> "b"
      [] c = "E" -> "e"
      [] c = "Z" -> "z"
      [] c = "P" -> "p"
      [] OTHER   -> c

\* Series.fillna("") / fillna(0) of one cell.
FillText(cell) == IF cell.nan THEN <<>> ELSE cell.s
FillZero(cell) == IF cell.nan THEN 0 ELSE cell.v

\* .str.contains(q, case=False) of one text, for a q of letters: q occurs in
\* the text, case ignored.
StrContains(text, q) ==
    \E i \in 0..(Len(text) - Len(q)) :
        \A j \in 1..Len(q) : LowerChar(text[i + j]) = LowerChar(q[j])

\* .astype(bool) of one rain_ok cell: bool(NaN) is True.
AsTypeBool(cell) == cell # "False"

\* The sidebar's values; sidebar_filters_section's defaults.
DefaultParams ==
    [q |-> <<>>, pluie |-> "(Tous)", duree |-> <<0, 300>>, parking |-> "(Tous)",
     satis |-> 0, open_now |-> FALSE]

\* The attribute filters both functions share, one row at a time, in the
\* code's order.
KeepLocation(row, p)     == p.q = <<>> \/ StrContains(FillText(row.location), p.q)
KeepRain(row, p)         == p.pluie \notin {"Oui", "Non"}
                            \/ AsTypeBool(row.rain_ok) = (p.pluie = "Oui")
KeepDuration(row, p)     == /\ FillZero(row.duration_min) >= p.duree[1]
                            /\ FillZero(row.duration_min) <= p.duree[2]
KeepParking(row, p)      == p.parking \notin PARKING_OPTIONS \/ row.parking = p.parking
KeepSatisfaction(row, p) == FillZero(row.satisfaction) >= p.satis

KeepAttributes(row, p) ==
    /\ KeepLocation(row, p)
    /\ KeepRain(row, p)
    /\ KeepDuration(row, p)
    /\ KeepParking(row, p)
    /\ KeepSatisfaction(row, p)

Filtered(rows) == [done |-> TRUE, raised |-> FALSE, rows |-> rows]
FilterRaised   == [done |-> TRUE, raised |-> TRUE, rows |-> <<>>]

\* apply_place_filters(df, q, pluie, duree, parking, satis, open_now_flag) at
\* the instant utc.  Series.apply(is_open_now) runs on the rows the attribute
\* filters kept; an exception of is_open_now leaves the function.
apply_place_filters(frame, p, utc) ==
    LET Attr(row) == KeepAttributes(row, p)
        out == SelectSeq(frame, Attr)
        Open(row) == is_open_now(row.hours_json, utc) = "open"
    IN  IF ~p.open_now THEN Filtered(out)
        ELSE IF \E i \in 1..Len(out) : is_open_now(out[i].hours_json, utc) = "raise"
             THEN FilterRaised
             ELSE Filtered(SelectSeq(out, Open))

\* apply_event_filters(...) at the instant utc.
apply_event_filters(frame, p, utc) ==
    LET Attr(row) == KeepAttributes(row, p)
        out == SelectSeq(frame, Attr)
        Within(row) == within_open_now(row.start_dt, row.end_dt, utc) = "within"
    IN  IF ~p.open_now THEN Filtered(out)
        ELSE IF \E i \in 1..Len(out) :
                    within_open_now(out[i].start_dt, out[i].end_dt, utc) = "raise"
             THEN FilterRaised
             ELSE Filtered(SelectSeq(out, Within))

(***************************************************************************)
(* DataFrame.sort_values.  A missing key (NaN) sorts last whatever the     *)
(* direction.  With two keys pandas sorts lexicographically and stably;    *)
(* with one key (quicksort) the order of rows with equal keys is not       *)
(* fixed.                                                                  *)
(***************************************************************************)
\* One numeric key: a comes strictly before b.
KeyBefore(a, b, ascending) ==
    IF a.nan THEN FALSE
    ELSE IF b.nan THEN TRUE
    ELSE IF ascending THEN a.v < b.v ELSE a.v > b.v

KeySame(a, b) == a.nan = b.nan /\ (a.nan \/ a.v = b.v)

PlaceBeforeAscending(a, b) ==
    \/ KeyBefore(a.satisfaction, b.satisfaction, TRUE)
    \/ /\ KeySame(a.satisfaction, b.satisfaction)
       /\ KeyBefore(a.duration_min, b.duration_min, TRUE)

\* by=["satisfaction", "duration_min"], ascending=[False, True]
PlaceBefore(a, b) ==
    \/ KeyBefore(a.satisfaction, b.satisfaction, FALSE)
    \/ /\ KeySame(a.satisfaction, b.satisfaction)
       /\ KeyBefore(a.duration_min, b.duration_min, TRUE)

\* The rows in the order of the keys, rows of equal keys in their input order.
SortPlaces(rows) ==
    LET n == Len(rows)
        Rank(i) == Cardinality({j \in 1..n :
                        \/ PlaceBefore(rows[j], rows[i])
                        \/ ~PlaceBefore(rows[i], rows[j]) /\ j < i}) + 1
    IN  [k \in 1..n |-> rows[CHOOSE i \in 1..n : Rank(i) = k]]

\* by=["start_dt"]: the cells are compared as text.  ISO texts of one length
\* compare as their date-times, then their offsets; other text comes after
\* them ("2" sorts first), NaN last.
EventBefore(a, b) ==
    LET x == a.start_dt
        y == b.start_dt
    IN  IF x.k = "nan" THEN FALSE
        ELSE IF y.k = "nan" THEN TRUE
        ELSE IF x.k # "iso" THEN FALSE
        ELSE IF y.k # "iso" THEN TRUE
        ELSE x.wall < y.wall \/ (x.wall = y.wall /\ x.off < y.off)

\* Every order sort_values may give the rows.
SortEvents(rows) ==
    LET n == Len(rows)
        Orders == {o \in [1..n -> 1..n] :
                     /\ \A i, j \in 1..n : i # j => o[i] # o[j]
                     /\ \A i, j \in 1..n : i < j => ~EventBefore(rows[o[j]], rows[o[i]])}
    IN  {[k \in 1..n |-> rows[o[k]]] : o \in Orders}

(***************************************************************************)
(* SpecFilter: the inputs.  The run's instant is Monday 2025-07-07 11:30   *)
(* local.  A sampled row is the base row with at most one cell replaced.   *)
(***************************************************************************)
FilterNow == AtLocal(SummerMonday, 11, 30, 0)

Bern == <<"B", "e", "r", "n">>
Zug  == <<"Z", "u", "g">>

\* {"Lun": {"open": true, "intervals": [{"start": "09:00", "end": "12:00"}]}}
MondayMorning == CellText(Schedule("Lun", DayEntry(TRUE, <<Block(<<9, 0>>, <<12, 0>>)>>), FALSE))
MondayClosed  == CellText(Schedule("Lun", ClosedEntry, TRUE))

BasePlace ==
    [location |-> Text(Bern), rain_ok |-> "True", duration_min |-> Num(90),
     parking |-> "Facile", satisfaction |-> Num(4), hours_json |-> MondayMorning]

\* 2025-07-07T09:00:00+02:00 to 18:00:00+02:00, and the same hours one day later.
TodayAt(h)    == TsOffset(SummerMonday * DaySeconds + time(h, 0), 7200)
TomorrowAt(h) == TsOffset((SummerMonday + 1) * DaySeconds + time(h, 0), 7200)

BaseEvent ==
    [location |-> Text(Bern), rain_ok |-> "True", duration_min |-> Num(90),
     parking |-> "Facile", satisfaction |-> Num(4),
     start_dt |-> TodayAt(9), end_dt |-> TodayAt(18)]

CommonVariants(base) ==
    {[base EXCEPT !.location = v] : v \in {NaNText, Text(Zug)}}
    \cup {[base EXCEPT !.rain_ok = v] : v \in {"False", "NaN"}}
    \cup {[base EXCEPT !.duration_min = v] : v \in {NaN, Num(20)}}
    \cup {[base EXCEPT !.parking = v] : v \in {"Moyen", "NaN"}}
    \cup {[base EXCEPT !.satisfaction = v] : v \in {NaN, Num(2)}}

PlaceRows ==
    {BasePlace} \cup CommonVariants(BasePlace)
    \cup {[BasePlace EXCEPT !.hours_json = v] :
            v \in {MondayClosed, CellNaN, CellText(JList(<<>>))}}

\* Three places with satisfaction 2, 4 and 5, in every order of the file.
Place2 == [BasePlace EXCEPT !.satisfaction = Num(2), !.duration_min = Num(20)]
Place4 == BasePlace
Place5 == [BasePlace EXCEPT !.satisfaction = Num(5), !.duration_min = Num(120)]

ScenarioPlaces ==
    {<<Place2, Place4, Place5>>, <<Place2, Place5, Place4>>, <<Place4, Place2, Place5>>,
     <<Place4, Place5, Place2>>, <<Place5, Place2, Place4>>, <<Place5, Place4, Place2>>}

\* The event form takes a duration of 0 to 600 minutes.
EventRows ==
    {BaseEvent} \cup CommonVariants(BaseEvent)
    \cup {[BaseEvent EXCEPT !.duration_min = Num(600)]}
    \cup {[BaseEvent EXCEPT !.start_dt = TomorrowAt(9), !.end_dt = TomorrowAt(18)],
          [BaseEvent EXCEPT !.start_dt = TsNaN], [BaseEvent EXCEPT !.end_dt = TsNotIso],
          [BaseEvent EXCEPT !.start_dt = TsNotIso], [BaseEvent EXCEPT !.end_dt = TsNaN],
          [BaseEvent EXCEPT !.end_dt = TsNumber]}

ParamSamples ==
    [q : {<<>>, <<"b", "E">>}, pluie : {"(Tous)", "Oui", "Non"},
     duree : {<<0, 300>>, <<60, 120>>}, parking : {"(Tous)", "Facile"},
     satis : {0, 4}, open_now : BOOLEAN]

InitFilter ==
    /\ df_kind \in {"places", "events"}
    /\ df \in SeqUpTo(IF df_kind = "places" THEN PlaceRows ELSE EventRows, MaxRows)
               \cup (IF df_kind = "places" THEN ScenarioPlaces ELSE {})
    /\ params = DefaultParams
    /\ filter_now = FilterNow
    /\ filtered = NotFiltered
    /\ shown = <<>>
    /\ HoursIdle /\ WindowIdle /\ SessionIdle

\* The Explorer tab of one script run: the sidebar's values, then
\* apply_place_filters on the places and a card for each row kept, in the
\* order of sort_values (no card when the filter raised or kept nothing).
ExplorerTab(p) ==
    /\ df_kind = "places"
    /\ ~filtered.done
    /\ params' = p
    /\ filtered' = apply_place_filters(df, p, filter_now)
    /\ shown' = SortPlaces(filtered'.rows)
    /\ UNCHANGED <<df_kind, df, filter_now, hoursVars, windowVars, sessionVars>>

\* The events tab of one script run: the filter, then the cards in the order
\* of sort_values.
EventsTab(p) ==
    /\ df_kind = "events"
    /\ ~filtered.done
    /\ params' = p
    /\ filtered' = apply_event_filters(df, p, filter_now)
    /\ shown' \in SortEvents(filtered'.rows)
    /\ UNCHANGED <<df_kind, df, filter_now, hoursVars, windowVars, sessionVars>>

NextFilter ==
    \/ \E p \in ParamSamples : ExplorerTab(p)
    \/ \E p \in ParamSamples : EventsTab(p)

SpecFilter == InitFilter /\ [][NextFilter]_vars

\* The filter function of the collection's kind.
ApplyFilters(kind, frame, p, utc) ==
    IF kind = "places" THEN apply_place_filters(frame, p, utc)
    ELSE apply_event_filters(frame, p, utc)

RowSet(r) == {r.rows[i] : i \in 1..Len(r.rows)}

\* C4: with every predicate at its wildcard or default value, the filter returns
\* exactly the records of the input collection.
C4_DefaultsKeepAll ==
    (filtered.done /\ params = DefaultParams)
        => (~filtered.raised /\ filtered.rows = df)

\* The filter categories a parameter set has off their defaults, and the
\* parameter set with only category c set as in p.
FilterCategories == {"q", "pluie", "duree", "parking", "satis", "open_now"}
ActiveCategories(p) == {c \in FilterCategories : p[c] # DefaultParams[c]}
OnlyCategory(p, c) == [DefaultParams EXCEPT ![c] = p[c]]

\* C5: the records returned with two predicates set are the intersection of the
\* records returned with each one set alone.
C5_TwoPredicatesIntersect ==
    filtered.done =>
        \A a, b \in ActiveCategories(params) :
            (a # b /\ ActiveCategories(params) = {a, b}) =>
                LET ra == ApplyFilters(df_kind, df, OnlyCategory(params, a), filter_now)
                    rb == ApplyFilters(df_kind, df, OnlyCategory(params, b), filter_now)
                IN  /\ ~filtered.raised /\ ~ra.raised /\ ~rb.raised
                    /\ RowSet(filtered) = RowSet(ra) \cap RowSet(rb)

\* A row read with every missing cell as its zero-equivalent: location "",
\* rain flag false, duration 0, satisfaction 0.
KeptAsZeroEquivalent(row, p) ==
    LET loc  == IF row.location.nan THEN <<>> ELSE row.location.s
        rain == row.rain_ok = "True"
        dur  == IF row.duration_min.nan THEN 0 ELSE row.duration_min.v
        sat  == IF row.satisfaction.nan THEN 0 ELSE row.satisfaction.v
    IN  /\ p.q = <<>> \/ StrContains(loc, p.q)
        /\ p.pluie = "(Tous)" \/ rain = (p.pluie = "Oui")
        /\ p.duree[1] <= dur /\ dur <= p.duree[2]
        /\ p.parking = "(Tous)" \/ row.parking = p.parking
        /\ sat >= p.satis

\* C6: a record whose filtered attribute is missing is treated as having the
\* zero-equivalent value (a missing rain flag is kept by "Non" and dropped by
\* "Oui") and causes no error.
C6_MissingIsZeroEquivalent ==
    (filtered.done /\ ~params.open_now)
        => LET Kept(row) == KeptAsZeroEquivalent(row, params)
           IN  ~filtered.raised /\ filtered.rows = SelectSeq(df, Kept)

\* The number of times the row r occurs in the sequence rows.
Occurrences(rows, r) == Cardinality({i \in 1..Len(rows) : rows[i] = r})

InitEventViews == InitWindow \/ (InitFilter /\ df_kind = "events")

NextEventViews ==
    \/ EventCardBadge
    \/ \E p \in ParamSamples : EventsTab(p)

SpecEventViews == InitEventViews /\ [][NextEventViews]_vars

\* A cell that is absent or holds no ISO-8601 timestamp.
NoTimestamp(cell) == cell.k # "iso"

\* An event the "active now" filter has to keep: it passes the attribute
\* filters, both timestamps are parsable, and start <= now <= end.
ActiveNow(row) ==
    /\ KeepAttributes(row, params)
    /\ ~NoTimestamp(row.start_dt) /\ ~NoTimestamp(row.end_dt)
    /\ InstantOf(row.start_dt) <= filter_now /\ filter_now <= InstantOf(row.end_dt)

\* C12: when start_dt or end_dt is absent (None, empty, NaN) or no parsable
\* timestamp, within_open_now answers "not within" and raises nothing; the
\* events filter with the open-now flag raises nothing either, drops such
\* events and keeps exactly the other events that are active.
C12_UnparsableIsNotWithin ==
    /\ (within_result # "unset" /\ (NoTimestamp(start_dt_str) \/ NoTimestamp(end_dt_str)))
          => within_result = "not_within"
    /\ (df_kind = "events" /\ filtered.done /\ params.open_now)
          => /\ ~filtered.raised
             /\ filtered.rows = SelectSeq(df, ActiveNow)

\* C12's case: a collection of an event without start_dt (NaN) followed by
\* an event that is active; the open-now filter kept the second alone.
C12_Witness ==
    /\ df_kind = "events"
    /\ df = <<[BaseEvent EXCEPT !.start_dt = TsNaN], BaseEvent>>
    /\ params = [DefaultParams EXCEPT !.open_now = TRUE]
    /\ filtered = Filtered(<<BaseEvent>>)

(***************************************************************************)
(* slugify (and Repo._slug, the same code), on sequences of characters.    *)
(* Of the model's alphabet, " " is whitespace, "!" is punctuation, and     *)
(* every other character but "-" is a word character (\w), "_" included.   *)
(***************************************************************************)
IsSpace(c)     == c = " "
IsWordChar(c)  == c \notin {" ", "-", "!"}
IsSeparator(c) == c \in {" ", "_", "-"}

RECURSIVE DropWhileSpace(_)
DropWhileSpace(s) ==
    IF s # <<>> /\ IsSpace(Head(s)) THEN DropWhileSpace(Tail(s)) ELSE s

RECURSIVE DropEndSpace(_)
DropEndSpace(s) ==
    IF s # <<>> /\ IsSpace(s[Len(s)]) THEN DropEndSpace(SubSeq(s, 1, Len(s) - 1)) ELSE s

\* text.strip().lower()
StripLower(s) ==
    LET t == DropEndSpace(DropWhileSpace(s)) IN [i \in 1..Len(t) |-> LowerChar(t[i])]

\* re.sub(r"[^\w\s-]", "", text)
DropPunctuation(s) ==
    LET Kept(c) == IsWordChar(c) \/ IsSpace(c) \/ c = "-" IN SelectSeq(s, Kept)

RECURSIVE DropWhileSeparator(_)
DropWhileSeparator(s) ==
    IF s # <<>> /\ IsSeparator(Head(s)) THEN DropWhileSeparator(Tail(s)) ELSE s

\* re.sub(r"[\s_-]+", "-", text)
RECURSIVE CollapseSeparators(_)
CollapseSeparators(s) ==
    IF s = <<>> THEN <<>>
    ELSE IF IsSeparator(Head(s))
         THEN <<"-">> \o CollapseSeparators(DropWhileSeparator(Tail(s)))
         ELSE <<Head(s)>> \o CollapseSeparators(Tail(s))

RECURSIVE DropWhileHyphen(_)
DropWhileHyphen(s) ==
    IF s # <<>> /\ Head(s) = "-" THEN DropWhileHyphen(Tail(s)) ELSE s

RECURSIVE DropEndHyphen(_)
DropEndHyphen(s) ==
    IF s # <<>> /\ s[Len(s)] = "-" THEN DropEndHyphen(SubSeq(s, 1, Len(s) - 1)) ELSE s

\* re.sub(r"^-+|-+$", "", text)
TrimHyphens(s) == DropEndHyphen(DropWhileHyphen(s))

slugify(text) ==
    LET t == TrimHyphens(CollapseSeparators(DropPunctuation(StripLower(text))))
    IN  IF t = <<>> THEN <<"i", "t", "e", "m">> ELSE t

(***************************************************************************)
(* The CSV files.  A frame row holds Python values, a file row holds text: *)
(* to_csv writes None and NaN as the empty field, read_csv reads the empty *)
(* field as NaN.  The other fields of the model's rows are non-empty text  *)
(* and survive the round trip.                                             *)
(***************************************************************************)
NoImage    == [k |-> "none"]                       \* Python None
NaNImage   == [k |-> "nan"]
EmptyField == [k |-> "empty"]
LocalPath(slug, ts) == [k |-> "local", slug |-> slug, ts |-> ts]   \* data/images/<slug>-<ts>.png
PublicUrl(slug, ts) == [k |-> "url", slug |-> slug, ts |-> ts]     \* public URL of <slug>-<ts>.png

to_csv(frame) ==
    [i \in 1..Len(frame) |->
        [frame[i] EXCEPT !.image_path =
            IF @.k \in {"none", "nan"} THEN EmptyField ELSE @]]

read_csv(file) ==
    [i \in 1..Len(file) |->
        [file[i] EXCEPT !.image_path = IF @.k = "empty" THEN NaNImage ELSE @]]

\* load_df: a file that is absent, or that read_csv fails on, gives the empty frame.
load_df(file, read_ok) == IF read_ok THEN read_csv(file) ELSE <<>>

save_df(frame) == to_csv(frame)

(***************************************************************************)
(* Image storage.  A directory or bucket is a set of [path, bytes]; a      *)
(* write to an existing path replaces it (open(path, "wb"), upsert).       *)
(***************************************************************************)
NoUpload == [present |-> FALSE, bytes |-> ""]
PngUpload == [present |-> TRUE, bytes |-> "png-bytes"]

WriteFile(store, slug, ts, bytes) ==
    {f \in store : ~(f.slug = slug /\ f.ts = ts)} \cup {[slug |-> slug, ts |-> ts, bytes |-> bytes]}

RemoteOutcomes == {"url", "upload_raises", "no_url"}

\* Repo.upload_image_public: reads the stream, uploads, asks for the URL.
\* "no_url": get_public_url raises or returns nothing after the upload.
upload_image_public(file, prefix, now_ts, outcome, bkt) ==
    [url |-> IF outcome = "url" THEN PublicUrl(slugify(prefix), now_ts) ELSE NoImage,
     bkt |-> IF outcome = "upload_raises" THEN bkt
             ELSE WriteFile(bkt, slugify(prefix), now_ts, file.bytes)]

\* save_uploaded_image: the remote first when configured, else (or when the
\* remote gave no URL) the local directory.  upload.read() after the remote
\* attempt has read the stream returns no bytes.  The local write itself is
\* taken to succeed (ensure_dirs has made the directory).
save_uploaded_image(upload, prefix, use_remote, now_ts, outcome, dir, bkt) ==
    IF ~upload.present THEN [path |-> NoImage, dir |-> dir, bkt |-> bkt]
    ELSE LET remote == upload_image_public(upload, prefix, now_ts, outcome, bkt) IN
         IF use_remote /\ remote.url # NoImage
         THEN [path |-> remote.url, dir |-> dir, bkt |-> remote.bkt]
         ELSE [path |-> LocalPath(slugify(prefix), now_ts),
               dir  |-> WriteFile(dir, slugify(prefix), now_ts,
                                  IF use_remote THEN "" ELSE upload.bytes),
               bkt  |-> IF use_remote THEN remote.bkt ELSE bkt]

(***************************************************************************)
(* The two forms.                                                          *)
(***************************************************************************)
Zoo      == <<"Z", "o", "o">>
ZooBang  == <<"z", "o", "o", "!">>
NameSamples     == {<<>>, Zoo, ZooBang}
TitleSamples    == {<<>>, Zoo}
LocationSamples == {<<>>, Bern}
UploadSamples   == {NoUpload, PngUpload}
\* datetime.combine(date, time) of the event form, as wall-clock seconds:
\* 2025-03-30 02:30 (inside the hour daylight saving time skips) and 03:00,
\* and 2025-07-01 09:00.
EventWallSamples == {SpringWall0 + 3600, SpringWall0 + 5400,
                     JulyFirst * DaySeconds + time(9, 0)}

PlaceForms == [name : NameSamples, location : LocationSamples, upload : UploadSamples]
EventForms == [title : TitleSamples, location : LocationSamples,
               start : EventWallSamples, end : EventWallSamples,
               upload : UploadSamples]

\* `not name or not location`
RequiredMissing(a, b) == a = <<>> \/ b = <<>>

\* datetime.combine(...).replace(tzinfo=APP_TZ)
FormDateTime(wall) == [wall |-> wall, tz |-> "APP_TZ", off |-> Fold0Offset(wall)]

\* datetime.isoformat() of an aware datetime
isoformat(dt) == TsOffset(dt.wall, dt.off)

\* `end_dt < start_dt`: both carry APP_TZ, so Python compares the wall-clock fields.
EndBeforeStart(start_dt, end_dt) == end_dt.wall < start_dt.wall

NewId(text, now_ts) == [slug |-> slugify(text), ts |-> now_ts]

(***************************************************************************)
(* The session: script runs of main() over the stored files.  The frames   *)
(* `places` and `events` are locals of one run, read from the files at its *)
(* start; a run without a submitted form changes nothing that is stored.   *)
(* The sidebar filters stay at their defaults, so the two filter calls of  *)
(* a run raise nothing.  The image name and the record id of one run read  *)
(* the clock within the same second.                                       *)
(***************************************************************************)
ErrRequired  == "error_required"     \* st.error("Nom et Lieu sont requis.") / ("Titre et Lieu sont requis.")
ErrOrder     == "error_order"        \* st.error("Fin doit etre apres Debut.")
PlaceAdded   == "success_place"      \* st.success("Lieu ajoute !")
EventAdded   == "success_event"      \* st.success("Evenement ajoute !")

Init ==
    /\ HoursIdle /\ WindowIdle /\ FilterIdle
    /\ USE_SUPABASE \in BOOLEAN
    /\ clock = 0
    /\ places_csv = <<>> /\ events_csv = <<>>
    /\ img_dir = {} /\ bucket = {}
    /\ remote_places = <<>> /\ remote_events = <<>>
    /\ msg = "none"

StoredCount == Len(places_csv) + Len(events_csv)

\* time passes
Tick ==
    /\ clock < MaxClock
    /\ clock' = clock + 1
    /\ UNCHANGED <<hoursVars, windowVars, filterVars, USE_SUPABASE, places_csv, events_csv,
                   img_dir, bucket, remote_places, remote_events, msg>>

\* A run with the form "add_place" submitted.  read_ok: read_csv of the run's
\* load_df succeeded; outcome: what the remote did with the image.
AddPlace(form) ==
    /\ IF RequiredMissing(form.name, form.location)
       THEN /\ msg' = ErrRequired
            /\ UNCHANGED <<places_csv, img_dir, bucket>>
       ELSE \E read_ok \in BOOLEAN, outcome \in RemoteOutcomes :
            LET places == load_df(places_csv, read_ok)
                img == save_uploaded_image(form.upload, form.name, USE_SUPABASE, clock,
                                           outcome, img_dir, bucket)
                new == [id |-> NewId(form.name, clock), name |-> form.name,
                        location |-> form.location, image_path |-> img.path]
            IN  /\ StoredCount < MaxStored
                /\ places_csv' = save_df(Append(places, new))
                /\ img_dir' = img.dir
                /\ bucket' = img.bkt
                /\ msg' = PlaceAdded
    /\ UNCHANGED <<hoursVars, windowVars, filterVars, USE_SUPABASE, clock, events_csv,
                   remote_places, remote_events>>

\* A run with the form "add_event" submitted.
AddEvent(form) ==
    LET start_dt == FormDateTime(form.start)
        end_dt   == FormDateTime(form.end)
    IN
    /\ IF RequiredMissing(form.title, form.location)
       THEN /\ msg' = ErrRequired
            /\ UNCHANGED <<events_csv, img_dir, bucket>>
       ELSE IF EndBeforeStart(start_dt, end_dt)
       THEN /\ msg' = ErrOrder
            /\ UNCHANGED <<events_csv, img_dir, bucket>>
       ELSE \E read_ok \in BOOLEAN, outcome \in RemoteOutcomes :
            LET events == load_df(events_csv, read_ok)
                img == save_uploaded_image(form.upload, form.title, USE_SUPABASE, clock,
                                           outcome, img_dir, bucket)
                new_e == [id |-> NewId(form.title, clock), title |-> form.title,
                          location |-> form.location,
                          start_dt |-> isoformat(start_dt), end_dt |-> isoformat(end_dt),
                          image_path |-> img.path]
            IN  /\ StoredCount < MaxStored
                /\ events_csv' = save_df(Append(events, new_e))
                /\ img_dir' = img.dir
                /\ bucket' = img.bkt
                /\ msg' = EventAdded
    /\ UNCHANGED <<hoursVars, windowVars, filterVars, USE_SUPABASE, clock, places_csv,
                   remote_places, remote_events>>

Next ==
    \/ Tick
    \/ \E form \in PlaceForms : AddPlace(form)
    \/ \E form \in EventForms : AddEvent(form)

Spec == Init /\ [][Next]_vars

(***************************************************************************)
(* Claims about the session.                                               *)
(***************************************************************************)
Indices(file) == 1..Len(file)

\* C7: every stored place, respectively event, has an identifier different
\* from that of every other stored record of its collection.
C7_UniqueIds ==
    /\ \A i, j \in Indices(places_csv) : i # j => places_csv[i].id # places_csv[j].id
    /\ \A i, j \in Indices(events_csv) : i # j => events_csv[i].id # events_csv[j].id

\* C8: a record once stored stays stored: every row a file holds before a
\* step is a row of the file after it, also when the run's read of the file
\* failed and its submission was accepted.
C8_StoredRecordsKept ==
    [][/\ \A i \in Indices(places_csv) : \E j \in Indices(places_csv') : places_csv'[j] = places_csv[i]
       /\ \A i \in Indices(events_csv) : \E j \in Indices(events_csv') : events_csv'[j] = events_csv[i]]_vars

\* What the stored files may hold when validation does its work: name (title)
\* and location present, and no event that ends, by the local date-time the
\* form took, before it starts.
StoredValid ==
    /\ \A i \in Indices(places_csv) : ~RequiredMissing(places_csv[i].name, places_csv[i].location)
    /\ \A i \in Indices(events_csv) :
          /\ ~RequiredMissing(events_csv[i].title, events_csv[i].location)
          /\ events_csv[i].end_dt.wall >= events_csv[i].start_dt.wall

\* C9, the clauses that hold: a run that ends in a validation error leaves
\* both files, the image directory and the bucket as they were; every stored
\* record has its required fields, and every stored event has end_dt >=
\* start_dt as the local date-times the form took.
C9_RejectedStoresNothing ==
    [][/\ msg' \in {ErrRequired, ErrOrder}
            => UNCHANGED <<places_csv, events_csv, img_dir, bucket>>
       /\ StoredValid']_vars

\* C9: every event created through the form satisfies end_dt >= start_dt, the
\* two stored timestamps compared as the instants they denote.
C9_StoredEndNotBeforeStart ==
    \A i \in Indices(events_csv) :
        InstantOf(events_csv[i].end_dt) >= InstantOf(events_csv[i].start_dt)

\* C10: when the remote backend is configured, every record an accepted
\* submission stored is a row of the remote table of its collection.
C10_AcceptedRecordsAreRemote ==
    USE_SUPABASE =>
        /\ \A i \in Indices(places_csv) :
              \E j \in Indices(remote_places) : remote_places[j].id = places_csv[i].id
        /\ \A i \in Indices(events_csv) :
              \E j \in Indices(remote_events) : remote_events[j].id = events_csv[i].id

\* C13: with the remote backend in use, a record whose image went to the
\* local folder (the remote upload raised or gave no URL) names a file of the
\* folder that holds the uploaded image's bytes, as without a remote backend.
C13_FallbackHoldsBytes ==
    USE_SUPABASE =>
        \A file \in {places_csv, events_csv} : \A i \in Indices(file) :
            file[i].image_path.k = "local" =>
                \E f \in img_dir :
                    /\ f.slug = file[i].image_path.slug
                    /\ f.ts = file[i].image_path.ts
                    /\ f.bytes = PngUpload.bytes

====
